---- MODULE Spec2Model ----
(***************************************************************************)
(* ParseServerScheduler (src/index.js): the registry of cron timers        *)
(* (this.cronJobs), the full resync run by start(), the afterSave and      *)
(* afterDelete hooks, stop(), the four composition cases of                *)
(* _createCronJobs and the firing of the timers.  Every await of the       *)
(* source is a point where the handler is suspended and another handler,   *)
(* a timer or the host may run.  SpecById adds the calls of                *)
(* _recreateSchedule with an id, SpecTrigger the failures of the job       *)
(* requests of _performJob, and SpecCron applies _buildCronString (the     *)
(* cron string as a sequence of characters) to the fields of a record.     *)
(***************************************************************************)
EXTENDS Integers, Sequences, FiniteSets, TLC

\* ---- bounds of the model ------------------------------------------------
MaxIds    == 2      \* record ids 1..MaxIds
MaxNow    == 1      \* the clock runs 0..MaxNow
MaxChains == 2      \* calls of _recreateJobSchedule in one run
MaxStarts == 1      \* calls of start() in one run
MaxStops  == 1      \* calls of stop() in one run
MaxFires  == 2      \* fires of one repeating timer
MaxIdCalls == 1     \* calls of _recreateSchedule with an id in one run
MaxRepeat == 1439   \* repeatMinutes of the records given to _buildCronString

\* The length of a daysOfWeek mask.
DaysInWeek == 7

Ids == 1..MaxIds

\* String(request.object): the property key a Parse.Object is converted to
\* when it is used as an index of this.cronJobs ("[object Object]").
ObjKey == 0

\* A _JobSchedule as the scheduler reads it: startAfter, whether
\* repeatMinutes is set, and whether timeOfDay is present (without it
\* _buildCronString yields "NaN-..." and new CronJob throws).
Rec == {r \in [startAfter : 0..MaxNow, repeat : BOOLEAN, timeOfDay : BOOLEAN] :
          (~r.repeat) => r.timeOfDay}
NoRec   == [startAfter |-> -1, repeat |-> FALSE, timeOfDay |-> FALSE]  \* never saved
Deleted == [startAfter |-> -2, repeat |-> FALSE, timeOfDay |-> FALSE]  \* deleted

VARIABLES
  now,            \* the clock
  applicationId,  \* Parse.applicationId is set
  db,             \* the _JobSchedule collection: id -> record
  cronJobs,       \* this.cronJobs: id -> sequence of timer handles
  gen,            \* identity of the object this.cronJobs refers to
  timers,         \* every CronJob created so far
  chains,         \* every call of _recreateJobSchedule so far
  resync,         \* the frame of start() / _recreateScheduleForAllJobs
  hooks,          \* afterSave / afterDelete are subscribed
  pendingDel,     \* ids with a job.destroy() of a timer callback in flight
  starts,         \* calls of start()
  stops,          \* calls of stop()
  stopped,        \* stop() has been invoked and start() not since
  last,           \* id -> the call of _recreateJobSchedule that last set its entry
  idCalls,        \* calls of _recreateSchedule with an id (a string)
  rejected,       \* per call of _recreateJobSchedule: its job requests that failed
  cron            \* a call of _buildCronString: the fields read and the string built

vars == <<now, applicationId, db, cronJobs, gen, timers, chains, resync,
          hooks, pendingDel, starts, stops, stopped, last, idCalls, rejected, cron>>

\* What the actions of the scheduler proper leave alone.
others == <<idCalls, rejected, cron>>

Range(s) == {s[i] : i \in DOMAIN s}

\* ---- the timer primitive (CronJob of the cron package) -------------------

\* Mutant of _createCron: the start argument of CronJob is true.
CreateCronStarted(id, c, kind, at, cb, inner) ==
  [id |-> id, chain |-> c, kind |-> kind, at |-> at, cb |-> cb, inner |-> inner,
   running |-> TRUE, fires |-> 0, pend |-> FALSE, stopped |-> FALSE]

\* new CronJob(startTime, onTick, null, false, 'UTC'): created not running.
_createCron(id, c, kind, at, cb, inner) ==
  [id |-> id, chain |-> c, kind |-> kind, at |-> at, cb |-> cb, inner |-> inner,
   running |-> FALSE, fires |-> 0, pend |-> FALSE, stopped |-> FALSE]

\* CronJob.start()
TimerStart(t) == [t EXCEPT !.running = TRUE]

\* CronJob.stop(); stopped notes that stop() was called on the handle.
TimerStop(t) == [t EXCEPT !.running = FALSE, !.stopped = TRUE]

\* A timer armed for a date fires once: it stops running when it fires.
Retire(t) == IF t.kind = "date" THEN [t EXCEPT !.running = FALSE] ELSE t

\* ---- the registry ---------------------------------------------------------

\* The two kinds of value the source passes where an id is expected: the id
\* itself (a string) and a Parse.Object (request.object).
Str(id) == [obj |-> FALSE, id |-> id]
Obj(id) == [obj |-> TRUE, id |-> id]

\* The property key a value indexes this.cronJobs by: a string is its own
\* key, an object is converted to "[object Object]".
ToPropertyKey(x) == IF x.obj THEN ObjKey ELSE x.id

\* {}
EmptyReg == [k \in {} |-> << >>]

\* Mutant of _destroySchedule: the entry is removed and its timers are not
\* stopped.
DestroyScheduleNoStop(cj, T, id) ==
  [cronJobs |-> [k \in (DOMAIN cj) \ {ToPropertyKey(id)} |-> cj[k]], timers |-> T]

\* _destroySchedule(id) on registry cj and timers T.
_destroySchedule(cj, T, id) ==
  LET key == ToPropertyKey(id) IN
  IF key \notin DOMAIN cj
    THEN [cronJobs |-> cj, timers |-> T]
    ELSE [cronJobs |-> [k \in (DOMAIN cj) \ {key} |-> cj[k]],
          timers   |-> [i \in DOMAIN T |->
                          IF i \in Range(cj[key]) THEN TimerStop(T[i]) ELSE T[i]]]

RECURSIVE DestroyKeys(_, _, _)
DestroyKeys(cj, T, keys) ==
  IF keys = {} THEN [cronJobs |-> cj, timers |-> T]
  ELSE LET key == CHOOSE k \in keys : TRUE
           d   == _destroySchedule(cj, T, key)
       IN DestroyKeys(d.cronJobs, d.timers, keys \ {key})

\* _destroySchedules(): every key destroyed, then this.cronJobs = {} (a new
\* object; the caller advances gen).
_destroySchedules(cj, T) ==
  [cronJobs |-> EmptyReg,
   timers   |-> DestroyKeys(cj, T, {Str(k) : k \in DOMAIN cj}).timers]

\* ---- composition ------------------------------------------------------------

\* What the synchronous part of _createCronJobs leaves: the timers, whether
\* it threw, the timer sequence it returns, where it is suspended, and the
\* jobs it triggered.
Composed(T, ok, val, pc, trig) ==
  [timers |-> T, ok |-> ok, val |-> val, pc |-> pc, trig |-> trig]

\* Mutant of _jobInPast: the record is not destroyed.
JobInPastNoDestroy(T, job, c) == Composed(T, TRUE, << >>, "assign", 1)

\* _jobInPast: _performJob runs to its end, then the handler is suspended at
\* "await this._performJob(job)".
_jobInPast(T, job, c) == Composed(T, TRUE, << >>, "perform", 1)

\* Mutant of _jobInPastRepeat: actualJob.start() is missing.
JobInPastRepeatNotStarted(T, job, c) ==
  Composed(Append(T, _createCron(job.id, c, "cron", 0, "perform", 0)), TRUE,
           <<Len(T) + 1>>, "assign", 0)

\* _jobInPastRepeat: with an unparsable cron string new CronJob throws;
\* else the repeating timer is created and started.
_jobInPastRepeat(T, job, c) ==
  IF ~job.rec.timeOfDay THEN Composed(T, FALSE, << >>, "assign", 0)
  ELSE LET actualJob == _createCron(job.id, c, "cron", 0, "perform", 0)
       IN Composed(Append(T, TimerStart(actualJob)), TRUE, <<Len(T) + 1>>, "assign", 0)

\* Mutant of _jobInFuture: the callback does not destroy the record.
JobInFutureNoDestroy(T, job, c) ==
  Composed(Append(T, TimerStart(_createCron(job.id, c, "date", job.rec.startAfter,
                                            "perform", 0))),
           TRUE, <<Len(T) + 1>>, "assign", 0)

\* Mutant of _jobInFuture: the timer is not returned.
JobInFutureReturnsNothing(T, job, c) ==
  Composed(Append(T, TimerStart(_createCron(job.id, c, "date", job.rec.startAfter,
                                            "performDestroy", 0))),
           TRUE, << >>, "assign", 0)

\* _jobInFuture: one timer armed for startAfter, started.
_jobInFuture(T, job, c) ==
  LET scheduledStart == _createCron(job.id, c, "date", job.rec.startAfter, "performDestroy", 0)
  IN Composed(Append(T, TimerStart(scheduledStart)), TRUE, <<Len(T) + 1>>, "assign", 0)

\* _jobInFutureRepeat: actualJob (inner) is created, then scheduledStart
\* (outer), whose callback starts actualJob; only scheduledStart is started.
_jobInFutureRepeat(T, job, c) ==
  IF ~job.rec.timeOfDay THEN Composed(T, FALSE, << >>, "assign", 0)
  ELSE LET actualJob      == _createCron(job.id, c, "cron", 0, "perform", 0)
           scheduledStart == _createCron(job.id, c, "date", job.rec.startAfter,
                                         "startInner", Len(T) + 1)
       IN Composed(T \o <<actualJob, TimerStart(scheduledStart)>>, TRUE,
                   <<Len(T) + 2, Len(T) + 1>>, "assign", 0)

Case(rec, t) ==
  IF rec.startAfter > t
    THEN (IF rec.repeat THEN "futureRepeat" ELSE "future")
    ELSE (IF rec.repeat THEN "pastRepeat" ELSE "past")

_createCronJobs(T, job, c) ==
  LET isInFuture == job.rec.startAfter > now
      isRepeat   == job.rec.repeat
  IN IF isInFuture
       THEN (IF isRepeat THEN _jobInFutureRepeat(T, job, c) ELSE _jobInFuture(T, job, c))
       ELSE (IF isRepeat THEN _jobInPastRepeat(T, job, c) ELSE _jobInPast(T, job, c))

\* ---- the cron string ----------------------------------------------------------

\* A string is the sequence of its characters.
Digits == <<"0", "1", "2", "3", "4", "5", "6", "7", "8", "9">>

\* The decimal digits of a number, as a template literal and join() write it.
RECURSIVE NumberToString(_)
NumberToString(n) ==
  IF n < 10 THEN <<Digits[n + 1]>>
  ELSE NumberToString(n \div 10) \o <<Digits[(n % 10) + 1]>>

\* Array.prototype.join on an array of numbers.
RECURSIVE Join(_, _)
Join(a, sep) ==
  IF a = << >> THEN << >>
  ELSE IF Len(a) = 1 THEN NumberToString(a[1])
  ELSE NumberToString(a[1]) \o sep \o Join(Tail(a), sep)

\* The for loop of the mutant below, from index i on.
RECURSIVE DaysNumbersNoShift(_, _)
DaysNumbersNoShift(daysOfWeek, i) ==
  IF i >= Len(daysOfWeek) THEN << >>
  ELSE (IF daysOfWeek[i + 1] THEN <<i>> ELSE << >>) \o DaysNumbersNoShift(daysOfWeek, i + 1)

\* The for loop of _daysOfWeekToCronString from index i on (the indices of
\* the source start at 0, those of a sequence at 1).
RECURSIVE DaysNumbers(_, _)
DaysNumbers(daysOfWeek, i) ==
  IF i >= Len(daysOfWeek) THEN << >>
  ELSE (IF daysOfWeek[i + 1] THEN <<(i + 1) % DaysInWeek>> ELSE << >>)
         \o DaysNumbers(daysOfWeek, i + 1)

\* Mutant of _daysOfWeekToCronString: the index is pushed as it is.
DaysOfWeekNoShift(daysOfWeek) == Join(DaysNumbersNoShift(daysOfWeek, 0), <<",">>)

_daysOfWeekToCronString(daysOfWeek) == Join(DaysNumbers(daysOfWeek, 0), <<",">>)

\* job.get('daysOfWeek'): undefined, or an array (which is truthy whatever
\* it holds, the empty array included).
NoDays == [given |-> FALSE, mask |-> << >>]
Days(mask) == [given |-> TRUE, mask |-> mask]

\* Mutant of _buildCronString: the step of the hours is always appended.
BuildCronStringHourStep(job) ==
  LET timeOfDay     == job.timeOfDay
      daysOfWeek    == job.daysOfWeek
      repeatMinutes == job.repeatMinutes
      cronDoW       == IF daysOfWeek.given THEN _daysOfWeekToCronString(daysOfWeek.mask)
                                           ELSE <<"*">>
      minutes       == repeatMinutes % 60
      hours         == repeatMinutes \div 60
  IN <<"0", " ">>
     \o (IF minutes # 0
           THEN NumberToString(timeOfDay.minutes) \o <<"-", "5", "9", "/">> \o NumberToString(minutes) \o <<" ">>
           ELSE <<"0", " ">>)
     \o NumberToString(timeOfDay.hours) \o <<"-", "2", "3">>
     \o <<"/">> \o NumberToString(hours)
     \o <<" ">>
     \o <<"*", " ">>
     \o <<"*", " ">>
     \o cronDoW

\* _buildCronString(job); timeOfDay is the time of day in UTC that moment
\* has parsed from the field.
_buildCronString(job) ==
  LET timeOfDay     == job.timeOfDay
      daysOfWeek    == job.daysOfWeek
      repeatMinutes == job.repeatMinutes
      cronDoW       == IF daysOfWeek.given THEN _daysOfWeekToCronString(daysOfWeek.mask)
                                           ELSE <<"*">>
      minutes       == repeatMinutes % 60
      hours         == repeatMinutes \div 60
  IN <<"0", " ">>
     \o (IF minutes # 0
           THEN NumberToString(timeOfDay.minutes) \o <<"-", "5", "9", "/">> \o NumberToString(minutes) \o <<" ">>
           ELSE <<"0", " ">>)
     \o NumberToString(timeOfDay.hours) \o <<"-", "2", "3">>
     \o (IF hours # 0 THEN <<"/">> \o NumberToString(hours) ELSE << >>)
     \o <<" ">>
     \o <<"*", " ">>
     \o <<"*", " ">>
     \o cronDoW

\* The fields of the repeating records _buildCronString is applied to.
TimesOfDay == {[hours |-> h, minutes |-> m] : h \in {0, 9, 23}, m \in {0, 7, 30, 59}}
Masks == [1..DaysInWeek -> BOOLEAN] \cup {<< >>}
CronInputs ==
  {[timeOfDay |-> t, daysOfWeek |-> NoDays, repeatMinutes |-> r] :
     t \in TimesOfDay, r \in 1..MaxRepeat}
  \cup
  {[timeOfDay |-> t, daysOfWeek |-> Days(d), repeatMinutes |-> r] :
     t \in {[hours |-> 9, minutes |-> 30]}, d \in Masks, r \in {15, 90}}

\* No call of _buildCronString.
NoCron == [job |-> << >>, str |-> << >>, built |-> FALSE]

\* ---- the reconciliation controller ----------------------------------------

\* The part of the state a step of the controller rewrites.
Bundle ==
  [cronJobs |-> cronJobs, timers |-> timers, chains |-> chains, resync |-> resync,
   last |-> last]

\* The calls of _recreateJobSchedule for id that are suspended at an await.
Suspended(C, id) == {k \in DOMAIN C : C[k].id = id /\ C[k].ret = "pending"}

\* disturbed notes that a call did not run alone: another call for the same
\* id, or a teardown of the whole registry, ran while it was suspended.
DisturbId(C, id) ==
  [k \in DOMAIN C |-> IF k \in Suspended(C, id) THEN [C[k] EXCEPT !.disturbed = TRUE] ELSE C[k]]
DisturbAll(C) ==
  [k \in DOMAIN C |-> IF C[k].ret = "pending" THEN [C[k] EXCEPT !.disturbed = TRUE] ELSE C[k]]

\* _recreateJobSchedule(job) up to its await: _destroySchedule(job.id), the
\* reference this.cronJobs[job.id] is taken (target), _createCronJobs runs
\* to its first await.
_recreateJobSchedule(B, job, owner) ==
  LET c == Len(B.chains) + 1
      d == _destroySchedule(B.cronJobs, B.timers, Str(job.id))
      r == _createCronJobs(d.timers, job, c)
  IN [B EXCEPT !.cronJobs = d.cronJobs,
               !.timers   = r.timers,
               !.chains   = Append(DisturbId(@, job.id),
                                   [id |-> job.id, case |-> Case(job.rec, now),
                                    owner |-> owner, pc |-> r.pc, ok |-> r.ok, val |-> r.val,
                                    target |-> gen, trig |-> r.trig, del |-> 0,
                                    ret |-> "pending", prev |-> B.last[job.id],
                                    disturbed |-> Suspended(B.chains, job.id) # {}])]

\* The for loop of _recreateScheduleForAllJobs from its next iteration on.
LoopNext(B) ==
  IF B.resync.results = << >>
    THEN [B EXCEPT !.resync.pc = "subscribe"]
    ELSE _recreateJobSchedule([B EXCEPT !.resync.results = Tail(@), !.resync.pc = "job"],
                              Head(B.resync.results), "start")

\* The frame of start(): where it is, the records still to process, and
\* notes of the records fetched and of how each one ended.
\* No job request has failed.
NoneRejected == [c \in 1..MaxChains |-> 0]

Idle ==
  [pc |-> "idle", results |-> << >>, fetched |-> << >>, ok |-> {}, fail |-> {},
   disturbed |-> FALSE]

Commit(B) ==
  /\ cronJobs' = B.cronJobs
  /\ timers'   = B.timers
  /\ chains'   = B.chains
  /\ resync'   = B.resync
  /\ last'     = B.last

Disturb(r) == IF r.pc = "idle" THEN r ELSE [r EXCEPT !.disturbed = TRUE]

Init ==
  /\ now = 0
  /\ applicationId \in BOOLEAN
  /\ db \in [Ids -> Rec \cup {NoRec}]
  /\ cronJobs = EmptyReg
  /\ gen = 0
  /\ timers = << >>
  /\ chains = << >>
  /\ resync = Idle
  /\ hooks = FALSE
  /\ pendingDel = {}
  /\ starts = 0
  /\ stops = 0
  /\ stopped = FALSE
  /\ last = [i \in Ids |-> 0]
  /\ idCalls = 0
  /\ rejected = NoneRejected
  /\ cron = NoCron

\* ---- the host: start() and stop() ------------------------------------------

\* Mutant of Start: Parse.applicationId is not tested.
StartUnchecked ==
  /\ starts < MaxStarts
  /\ resync.pc \in {"idle", "aborted"}
  /\ starts' = starts + 1
  /\ resync' = [Idle EXCEPT !.pc = "find"]
  /\ stopped' = FALSE
  /\ UNCHANGED <<now, applicationId, db, cronJobs, gen, timers, chains, hooks,
                 pendingDel, stops, last>>
  /\ UNCHANGED others

\* start(): throws when Parse is not initialized (the frame ends as
\* "aborted", as it does when the query fails), else calls
\* _recreateScheduleForAllJobs, which issues the query and awaits it.  The
\* host calls start() again only after the previous call has settled.
Start ==
  /\ starts < MaxStarts
  /\ resync.pc \in {"idle", "aborted"}
  /\ starts' = starts + 1
  /\ IF applicationId
       THEN /\ resync' = [Idle EXCEPT !.pc = "find"]
            /\ stopped' = FALSE
       ELSE /\ resync' = [Idle EXCEPT !.pc = "aborted"]
            /\ UNCHANGED stopped
  /\ UNCHANGED <<now, applicationId, db, cronJobs, gen, timers, chains, hooks,
                 pendingDel, stops, last>>
  /\ UNCHANGED others

\* The orders a query may return the records of S in.
Orders(S) == {s \in [1..Cardinality(S) -> S] : \A i, j \in DOMAIN s : i # j => s[i] # s[j]}

\* The query returns; _destroySchedules() runs and its (undefined) result is
\* awaited.
ResyncFind ==
  /\ resync.pc = "find"
  /\ \E order \in Orders({i \in Ids : db[i] \in Rec}) :
       LET d == _destroySchedules(cronJobs, timers)
       IN /\ resync' = [resync EXCEPT !.pc = "loop", !.fetched = order,
                          !.results = [k \in DOMAIN order |-> [id |-> order[k], rec |-> db[order[k]]]]]
          /\ cronJobs' = d.cronJobs
          /\ timers' = d.timers
          /\ gen' = gen + 1
          /\ chains' = DisturbAll(chains)
  /\ UNCHANGED <<now, applicationId, db, hooks, pendingDel, starts, stops, stopped, last>>
  /\ UNCHANGED others

\* The query fails: _recreateScheduleForAllJobs and start() rethrow.
ResyncFindFails ==
  /\ resync.pc = "find"
  /\ resync' = [resync EXCEPT !.pc = "aborted"]
  /\ UNCHANGED <<now, applicationId, db, cronJobs, gen, timers, chains, hooks, pendingDel,
                 starts, stops, stopped, last>>
  /\ UNCHANGED others

\* The for loop is entered.
ResyncLoop ==
  /\ resync.pc = "loop"
  /\ resync.results = << >> \/ Len(chains) < MaxChains
  /\ Commit(LoopNext(Bundle))
  /\ UNCHANGED <<now, applicationId, db, gen, hooks, pendingDel, starts, stops, stopped>>
  /\ UNCHANGED others

\* _recreateScheduleForAllJobs has returned to start(): the hooks are
\* subscribed.
ResyncSubscribe ==
  /\ resync.pc = "subscribe"
  /\ hooks' = TRUE
  /\ resync' = Idle
  /\ UNCHANGED <<now, applicationId, db, cronJobs, gen, timers, chains, pendingDel,
                 starts, stops, stopped, last>>
  /\ UNCHANGED others

\* stop(): _destroySchedules().
Stop ==
  /\ stops < MaxStops
  /\ LET d == _destroySchedules(cronJobs, timers)
     IN /\ cronJobs' = d.cronJobs
        /\ timers' = d.timers
  /\ gen' = gen + 1
  /\ stops' = stops + 1
  /\ stopped' = TRUE
  /\ resync' = Disturb(resync)
  /\ chains' = DisturbAll(chains)
  /\ UNCHANGED <<now, applicationId, db, hooks, pendingDel, starts, last>>
  /\ UNCHANGED others

\* ---- the hooks --------------------------------------------------------------

\* A _JobSchedule object, as the hooks receive it in request.object.
JobObject(id, rec) ==
  [obj |-> TRUE, id |-> id, rec |-> rec, className |-> "_JobSchedule"]

\* _retreiveJobBy(jobId) as its caller sees it: the call of an async
\* function returns a promise.  The body reads `job`, which its scope does
\* not define (the parameter is jobId), so no fetch is issued and the
\* promise is rejected; a promise has no className.
_retreiveJobBy(jobId) ==
  [obj |-> TRUE, id |-> jobId.id, promise |-> "rejected", className |-> "undefined"]

\* _recreateSchedule(job): a string is replaced by the value of
\* _retreiveJobBy(job), which is not awaited; "!job instanceof Parse.Object"
\* is false for every value, so the guard is the className test alone; when
\* it fails the call throws before it has touched anything.
_recreateSchedule(B, arg) ==
  LET job == IF ~arg.obj THEN _retreiveJobBy(arg) ELSE arg
  IN IF job.className # "_JobSchedule"
       THEN B
       ELSE _recreateJobSchedule(B, job, "save")

\* A _JobSchedule is saved; the afterSave hook, when subscribed, runs
\* _recreateSchedule up to its first await.
SaveNotification(id, rec) ==
  /\ hooks
  /\ db[id] # Deleted
  /\ Len(chains) < MaxChains
  /\ db' = [db EXCEPT ![id] = rec]
  /\ Commit(_recreateSchedule([Bundle EXCEPT !.resync = Disturb(@)], JobObject(id, rec)))
  /\ UNCHANGED <<now, applicationId, gen, hooks, pendingDel, starts, stops, stopped>>
  /\ UNCHANGED others

\* The host calls _recreateSchedule with the id of a record.
RecreateScheduleById(id) ==
  /\ idCalls < MaxIdCalls
  /\ idCalls' = idCalls + 1
  /\ Commit(_recreateSchedule(Bundle, Str(id)))
  /\ UNCHANGED <<now, applicationId, db, gen, hooks, pendingDel, starts, stops, stopped,
                 rejected, cron>>

\* The record id leaves the collection; the afterDelete hook, when
\* subscribed, runs _destroySchedule(request.object).
AfterDelete(id) ==
  /\ db' = [db EXCEPT ![id] = Deleted]
  /\ IF hooks
       THEN LET d == _destroySchedule(cronJobs, timers, Obj(id))
            IN /\ cronJobs' = d.cronJobs
               /\ timers' = d.timers
       ELSE UNCHANGED <<cronJobs, timers>>

\* A client deletes the record.
DeleteNotification(id) ==
  /\ db[id] \in Rec
  /\ AfterDelete(id)
  /\ UNCHANGED <<now, applicationId, gen, chains, resync, hooks, pendingDel,
                 starts, stops, stopped, last>>
  /\ UNCHANGED others

\* The job.destroy() a timer callback issued reaches the server.
DestroyCommitted(id) ==
  /\ id \in pendingDel
  /\ pendingDel' = pendingDel \ {id}
  /\ IF db[id] \in Rec THEN AfterDelete(id) ELSE UNCHANGED <<db, cronJobs, timers>>
  /\ UNCHANGED <<now, applicationId, gen, chains, resync, hooks, starts, stops, stopped, last>>
  /\ UNCHANGED others

\* ---- the continuations of _recreateJobSchedule ----------------------------

Pending(c) == c \in DOMAIN chains /\ chains[c].ret = "pending"

\* _jobInPast resumes after "await this._performJob(job)": job.destroy() is
\* issued and awaited.
ChainPerform(c) ==
  /\ Pending(c)
  /\ chains[c].pc = "perform"
  /\ chains' = [chains EXCEPT ![c].pc = "destroy", ![c].del = @ + 1]
  /\ UNCHANGED <<now, applicationId, db, cronJobs, gen, timers, resync, hooks,
                 pendingDel, starts, stops, stopped, last>>
  /\ UNCHANGED others

\* job.destroy() of _jobInPast settles: the record is deleted, or the
\* server rejects the request because the record is gone.
ChainDestroy(c) ==
  /\ Pending(c)
  /\ chains[c].pc = "destroy"
  /\ IF db[chains[c].id] \in Rec
       THEN /\ AfterDelete(chains[c].id)
            /\ chains' = [chains EXCEPT ![c].pc = "assign"]
       ELSE /\ chains' = [chains EXCEPT ![c].pc = "assign", ![c].ok = FALSE]
            /\ UNCHANGED <<db, cronJobs, timers>>
  /\ UNCHANGED <<now, applicationId, gen, resync, hooks, pendingDel, starts, stops, stopped, last>>
  /\ UNCHANGED others

\* this.cronJobs[job.id] = <the awaited value>: the object and the key were
\* taken before the await, so the write goes to the object this.cronJobs
\* referred to then.
Assign(B, c) ==
  LET ch == B.chains[c] IN
  IF ~ch.ok
    THEN [B EXCEPT !.chains[c].ret = "fail", !.chains[c].pc = "done"]
    ELSE [B EXCEPT !.chains[c].ret = "ok", !.chains[c].pc = "done",
                   !.cronJobs = IF ch.target = gen
                                  THEN [k \in (DOMAIN @) \cup {ch.id} |->
                                          IF k = ch.id THEN ch.val ELSE @[k]]
                                  ELSE @,
                   !.last[ch.id] = c]

\* Mutant of LoopCatch: a record that fails ends the loop and the error is
\* rethrown.
LoopCatchRethrows(B, c) ==
  LET ch == B.chains[c] IN
  IF ch.ret = "ok"
    THEN LoopNext([B EXCEPT !.resync.ok = @ \cup {ch.id}])
    ELSE [B EXCEPT !.resync.fail = @ \cup {ch.id}, !.resync.pc = "aborted"]

\* The try/catch of the for loop: the outcome of the record is noted and
\* the loop goes on.
LoopCatch(B, c) ==
  LET ch == B.chains[c] IN
  LoopNext([B EXCEPT !.resync.ok   = IF ch.ret = "ok" THEN @ \cup {ch.id} ELSE @,
                     !.resync.fail = IF ch.ret = "ok" THEN @ ELSE @ \cup {ch.id}])

\* _recreateJobSchedule resumes from its await.
ChainAssign(c) ==
  /\ Pending(c)
  /\ chains[c].pc = "assign"
  /\ IF chains[c].owner = "start"
       THEN /\ Len(resync.results) = 0 \/ Len(chains) < MaxChains
            /\ Commit(LoopCatch(Assign(Bundle, c), c))
       ELSE Commit(Assign([Bundle EXCEPT !.resync = Disturb(@)], c))
  /\ UNCHANGED <<now, applicationId, db, gen, hooks, pendingDel, starts, stops, stopped>>
  /\ UNCHANGED others

\* ---- the timers ---------------------------------------------------------------

\* The callback of timer t up to its first await.
OnTick(T, C, t) ==
  LET tm == T[t] IN
  CASE tm.cb = "perform" ->
         [timers |-> [T EXCEPT ![t].fires = @ + 1],
          chains |-> [C EXCEPT ![tm.chain].trig = @ + 1]]
    [] tm.cb = "performDestroy" ->
         [timers |-> [T EXCEPT ![t].fires = @ + 1, ![t].pend = TRUE],
          chains |-> [C EXCEPT ![tm.chain].trig = @ + 1]]
    [] tm.cb = "startInner" ->
         [timers |-> [T EXCEPT ![t].fires = @ + 1, ![tm.inner] = TimerStart(@)],
          chains |-> C]

\* Timer t fires: a date timer retires, then the callback runs.
Fire(t) ==
  /\ t \in DOMAIN timers
  /\ timers[t].running
  /\ timers[t].fires < MaxFires
  /\ timers[t].kind = "date" => now >= timers[t].at
  /\ LET r == OnTick([timers EXCEPT ![t] = Retire(@)], chains, t)
     IN /\ timers' = r.timers
        /\ chains' = r.chains
  /\ UNCHANGED <<now, applicationId, db, cronJobs, gen, resync, hooks, pendingDel,
                 starts, stops, stopped, last>>
  /\ UNCHANGED others

\* The callback of _jobInFuture resumes after "await this._performJob(job)":
\* job.destroy() is issued and not awaited.
FireResume(t) ==
  /\ t \in DOMAIN timers
  /\ timers[t].pend
  /\ timers' = [timers EXCEPT ![t].pend = FALSE]
  /\ chains' = [chains EXCEPT ![timers[t].chain].del = @ + 1]
  /\ pendingDel' = pendingDel \cup {timers[t].id}
  /\ UNCHANGED <<now, applicationId, db, cronJobs, gen, resync, hooks, starts, stops,
                 stopped, last>>
  /\ UNCHANGED others

\* ---- the job request -------------------------------------------------------------

\* Mutant of RequestFailed: the rejection reaches the caller of _performJob.
RequestFailedThrows(B, c) == [B EXCEPT !.chains[c].ok = FALSE]

\* A request of _performJob is rejected.  _performJob does not await the
\* promise rp(...) returns and attaches no handler to it, and its try/catch
\* covers the synchronous part only: no code of the scheduler runs.
RequestFailed(B, c) == B

\* One of the requests that call c of _recreateJobSchedule, or a timer it
\* created, has issued fails (network error or non-success response).  The
\* response of a request that succeeds is not read.
RequestFails(c) ==
  /\ c \in DOMAIN chains
  /\ rejected[c] < chains[c].trig
  /\ rejected' = [rejected EXCEPT ![c] = @ + 1]
  /\ Commit(RequestFailed(Bundle, c))
  /\ UNCHANGED <<now, applicationId, db, gen, hooks, pendingDel, starts, stops, stopped,
                 idCalls, cron>>

\* Time passes.
Tick ==
  /\ now < MaxNow
  /\ now' = now + 1
  /\ UNCHANGED <<applicationId, db, cronJobs, gen, timers, chains, resync, hooks,
                 pendingDel, starts, stops, stopped, last>>
  /\ UNCHANGED others

Next ==
  \/ Start
  \/ ResyncFind
  \/ ResyncFindFails
  \/ ResyncLoop
  \/ ResyncSubscribe
  \/ Stop
  \/ \E id \in Ids, rec \in Rec : SaveNotification(id, rec)
  \/ \E id \in Ids : DeleteNotification(id)
  \/ \E id \in Ids : DestroyCommitted(id)
  \/ \E c \in 1..MaxChains : ChainPerform(c)
  \/ \E c \in 1..MaxChains : ChainDestroy(c)
  \/ \E c \in 1..MaxChains : ChainAssign(c)
  \/ \E t \in 1..(2 * MaxChains) : Fire(t)
  \/ \E t \in 1..(2 * MaxChains) : FireResume(t)
  \/ Tick

Spec == Init /\ [][Next]_vars

\* The scheduler with calls of _recreateSchedule by id.
NextById ==
  \/ Next
  \/ \E id \in Ids : RecreateScheduleById(id)

SpecById == Init /\ [][NextById]_vars

\* The scheduler with the failures of the job requests.
NextTrigger ==
  \/ Next
  \/ \E c \in 1..MaxChains : RequestFails(c)

SpecTrigger == Init /\ [][NextTrigger]_vars

\* ---- _buildCronString on its own ------------------------------------------------

\* A repeating record is about to be composed.
InitCron ==
  /\ now = 0
  /\ applicationId = TRUE
  /\ db = [i \in Ids |-> NoRec]
  /\ cronJobs = EmptyReg
  /\ gen = 0
  /\ timers = << >>
  /\ chains = << >>
  /\ resync = Idle
  /\ hooks = FALSE
  /\ pendingDel = {}
  /\ starts = 0
  /\ stops = 0
  /\ stopped = FALSE
  /\ last = [i \in Ids |-> 0]
  /\ idCalls = 0
  /\ rejected = NoneRejected
  /\ cron \in {[job |-> j, str |-> << >>, built |-> FALSE] : j \in CronInputs}

\* _jobInPastRepeat or _jobInFutureRepeat calls _buildCronString(job).
BuildCronString ==
  /\ ~cron.built
  /\ cron' = [cron EXCEPT !.str = _buildCronString(cron.job), !.built = TRUE]
  /\ UNCHANGED <<now, applicationId, db, cronJobs, gen, timers, chains, resync, hooks,
                 pendingDel, starts, stops, stopped, last, idCalls, rejected>>

NextCron == BuildCronString

SpecCron == InitCron /\ [][NextCron]_vars

\* ---- the claims ---------------------------------------------------------------

Running == {t \in DOMAIN timers : timers[t].running}

\* The timers call c of _recreateJobSchedule created.
TimersOf(c) == {t \in DOMAIN timers : timers[t].chain = c}

\* C1: each record id has at most one live timer chain: two timers created
\* by two different calls of _recreateJobSchedule for the same id are never
\* running at the same time.
C1_OneLiveChainPerId ==
  \A t1, t2 \in Running :
    timers[t1].id = timers[t2].id => timers[t1].chain = timers[t2].chain

\* C2: when the afterDelete hook runs for an id that has a registry entry,
\* then after it every timer of that entry is stopped and the id has no
\* entry, and the entries and timers of the other ids are unchanged.
C2_DeleteStopsTimers ==
  [][\A id \in Ids :
       (hooks /\ id \in DOMAIN cronJobs /\ DeleteNotification(id)) =>
         /\ id \notin DOMAIN cronJobs'
         /\ \A t \in Range(cronJobs[id]) : ~timers'[t].running
         /\ \A k \in (DOMAIN cronJobs) \ {id} :
              k \in DOMAIN cronJobs' /\ cronJobs'[k] = cronJobs[k]
         /\ \A t \in DOMAIN timers : timers[t].id # id => timers'[t] = timers[t]]_vars

\* C3: once stop() has been invoked, no timer fires.
C3_NoFireAfterStop ==
  [][stopped => ~(\E t \in DOMAIN timers : Fire(t))]_vars

\* C4: every running timer is in the registry entry of the record id it was
\* created for.
C4_RunningTimersAreRegistered ==
  \A t \in Running :
    /\ timers[t].id \in DOMAIN cronJobs
    /\ t \in Range(cronJobs[timers[t].id])

\* The calls of _recreateJobSchedule that composed a record of the given
\* case without throwing.
Composing(case) == {c \in DOMAIN chains : chains[c].case = case /\ chains[c].ok}

\* C5: a full resync in which composing some records fails never aborts:
\* it raises only when the query itself fails, every fetched record is
\* processed, and when it completes (without stop() or a hook having run in
\* between) the registry holds an entry for exactly the records composed
\* successfully.
C5_ResyncIsolatesFailures ==
  /\ resync.pc = "aborted" => resync.fetched = << >> /\ resync.ok \cup resync.fail = {}
  /\ resync.pc = "subscribe" =>
       /\ resync.ok \cup resync.fail = Range(resync.fetched)
       /\ resync.ok \cap resync.fail = {}
       /\ ~resync.disturbed =>
            /\ DOMAIN cronJobs = resync.ok
            /\ \A id \in resync.ok : \A t \in Range(cronJobs[id]) : timers[t].id = id

\* A completed resync in which a record that failed was followed by one that
\* was scheduled.
C5_Witness ==
  /\ resync.pc = "subscribe"
  /\ ~resync.disturbed
  /\ \E i, j \in DOMAIN resync.fetched :
       /\ i < j
       /\ resync.fetched[i] \in resync.fail
       /\ resync.fetched[j] \in resync.ok
       /\ cronJobs[resync.fetched[j]] # << >>

\* C6: composing a record with startAfter in the future and repeatMinutes
\* set (and a cron string that parses) yields two timers, outer first; until it is stopped or fires the outer timer is
\* running; the inner timer is not running and has not fired before the
\* outer timer has fired; the job is triggered by the fires of the inner
\* timer only, and the record is never deleted.
C6_FutureRepeat ==
  \A c \in Composing("futureRepeat") :
    /\ Len(chains[c].val) = 2
    /\ TimersOf(c) = Range(chains[c].val)
    /\ LET outer == timers[chains[c].val[1]]
           inner == timers[chains[c].val[2]]
       IN /\ outer.kind = "date" /\ inner.kind = "cron"
          /\ chains[c].val[1] # chains[c].val[2]
          /\ (outer.fires = 0 /\ ~outer.stopped) => outer.running
          /\ outer.fires = 0 => (~inner.running /\ inner.fires = 0)
          /\ outer.fires <= 1
          /\ chains[c].trig = inner.fires
          /\ chains[c].del = 0

\* The outer timer has fired and started the inner timer, and the job has
\* not been triggered.
C6_Witness ==
  \E c \in Composing("futureRepeat") :
    /\ timers[chains[c].val[1]].fires = 1
    /\ timers[chains[c].val[2]].running
    /\ timers[chains[c].val[2]].fires = 0
    /\ chains[c].trig = 0

\* C7: composing a record with startAfter not in the future and no
\* repeatMinutes triggers the job exactly once before it returns, then
\* rejected the deletion of the record exactly once, and schedules no timer
\* (it returns the empty sequence).
C7_PastOnce ==
  \A c \in Composing("past") :
    /\ TimersOf(c) = {}
    /\ chains[c].val = << >>
    /\ chains[c].trig = 1
    /\ chains[c].del <= 1
    /\ chains[c].pc = "perform" => chains[c].del = 0
    /\ chains[c].ret = "ok" => chains[c].del = 1

\* A composition of such a record that has returned.
C7_Witness ==
  \E c \in Composing("past") : chains[c].ret = "ok" /\ chains[c].id \in DOMAIN cronJobs

\* C8: composing a record with startAfter in the future and no
\* repeatMinutes yields one fire-once timer, running until it fires or is stopped; no trigger and
\* no deletion request before it fires; it fires at most once, the fire
\* triggers the job once, and the deletion is requested once, after the
\* trigger.
C8_FutureOnce ==
  \A c \in Composing("future") :
    /\ Len(chains[c].val) = 1
    /\ TimersOf(c) = Range(chains[c].val)
    /\ LET t == timers[chains[c].val[1]]
       IN /\ t.kind = "date"
          /\ (t.fires = 0 /\ ~t.stopped) => t.running
          /\ t.fires <= 1
          /\ chains[c].trig = t.fires
          /\ chains[c].del = (IF t.fires = 1 /\ ~t.pend THEN 1 ELSE 0)

\* The timer has fired, the job was triggered and the deletion requested.
C8_Witness ==
  \E c \in Composing("future") : chains[c].trig = 1 /\ chains[c].del = 1

\* C9: composing a record with startAfter not in the future and
\* repeatMinutes set (and a cron string that parses) yields one repeating
\* timer, running unless stopped; every fire of it
\* triggers the job once and the deletion of the record is never requested.
C9_PastRepeat ==
  \A c \in Composing("pastRepeat") :
    /\ Len(chains[c].val) = 1
    /\ TimersOf(c) = Range(chains[c].val)
    /\ LET t == timers[chains[c].val[1]]
       IN /\ t.kind = "cron"
          /\ ~t.stopped => t.running
          /\ chains[c].trig = t.fires
          /\ chains[c].del = 0

\* The repeating timer has fired twice.
C9_Witness ==
  \E c \in Composing("pastRepeat") : timers[chains[c].val[1]].fires >= 2

\* Call c of _recreateJobSchedule returns in this step, it and the call
\* before it for the same id ran alone, and the call before it had
\* returned before c started.
SecondInARow(c) ==
  /\ chains[c].ret = "pending"
  /\ chains'[c].ret = "ok"
  /\ ~chains[c].disturbed
  /\ chains[c].prev # 0
  /\ ~chains[chains[c].prev].disturbed

\* C10: when an id is rescheduled twice in a row, then afterwards the
\* registry entry of the id is the second timer set, none of whose timers
\* has been stopped, and no timer of the first set is running.
C10_SecondSetReplacesFirst ==
  [][\A c \in DOMAIN chains :
       SecondInARow(c) =>
         /\ chains[c].id \in DOMAIN cronJobs'
         /\ cronJobs'[chains[c].id] = chains[c].val
         /\ \A t \in TimersOf(c) : ~timers'[t].stopped
         /\ \A t \in TimersOf(chains[c].prev) : ~timers'[t].running]_vars

\* Both calls scheduled timers and the second has returned.
C10_Witness ==
  \E c \in DOMAIN chains :
    /\ chains[c].ret = "ok"
    /\ ~chains[c].disturbed
    /\ chains[c].prev # 0
    /\ ~chains[chains[c].prev].disturbed
    /\ chains[c].val # << >>
    /\ chains[chains[c].prev].val # << >>
    /\ \E t \in TimersOf(chains[c].prev) : timers[t].stopped /\ timers[t].fires = 0
    /\ chains[c].id \in DOMAIN cronJobs
    /\ cronJobs[chains[c].id] = chains[c].val

\* C11: with Parse initialized, a call of _recreateSchedule with the id of a
\* stored record ends as
\* the call with the record itself does: the timers of the entry of the id
\* are stopped and a composition of the record is under way (the registry,
\* the timers and the compositions are those of the call by value).
C11_ByIdAsByValue ==
  [][\A id \in Ids :
       (applicationId /\ db[id] \in Rec /\ RecreateScheduleById(id)) =>
         LET v == _recreateSchedule(Bundle, JobObject(id, db[id]))
         IN /\ cronJobs' = v.cronJobs
            /\ timers' = v.timers
            /\ chains' = v.chains]_vars

C13_StartFailsFast ==
  ~applicationId =>
    /\ resync.pc \in {"idle", "aborted"}
    /\ starts > 0 => resync.pc = "aborted"
    /\ resync.fetched = << >>
    /\ timers = << >>
    /\ chains = << >>
    /\ cronJobs = EmptyReg
    /\ ~hooks

\* start() has been called without Parse initialized.
C13_Witness == ~applicationId /\ starts = 1 /\ resync.pc = "aborted" /\ ~hooks

\* C14 as stated: every registry entry holds 1 or 2 timer handles.
C14_OneOrTwoHandles ==
  \A id \in DOMAIN cronJobs : Len(cronJobs[id]) \in {1, 2}

\* C14 amended: every registry entry holds at most 2 timer handles; it is
\* the sequence a composition of the id returned, and it is empty exactly
\* when that composition was of a record with startAfter not in the future
\* and no repeatMinutes.
C14_AtMostTwoHandles ==
  \A id \in DOMAIN cronJobs :
    /\ Len(cronJobs[id]) <= 2
    /\ \E c \in DOMAIN chains :
         /\ chains[c].id = id
         /\ chains[c].ret = "ok"
         /\ chains[c].val = cronJobs[id]
         /\ (cronJobs[id] = << >>) <=> (chains[c].case = "past")

\* The registry holds an empty entry (of a record that has been deleted)
\* and an entry of two handles.
C14_Witness ==
  \E i, j \in DOMAIN cronJobs :
    /\ cronJobs[i] = << >>
    /\ db[i] = Deleted
    /\ Len(cronJobs[j]) = 2

\* C18: composing a record with startAfter not in the future and
\* repeatMinutes set runs the job now, once, and then schedules the
\* repeating timer: the job has been triggered once more than the timer has
\* fired.
C18_PastRepeatRunsNow ==
  \A c \in Composing("pastRepeat") :
    /\ Len(chains[c].val) = 1
    /\ chains[c].trig = 1 + timers[chains[c].val[1]].fires

\* The triggers of the job of id by the calls 1..n of _recreateJobSchedule
\* that composed it as a record without repeatMinutes, and by their timers.
RECURSIVE TriggersOnce(_, _)
TriggersOnce(id, n) ==
  IF n = 0 THEN 0
  ELSE TriggersOnce(id, n - 1)
         + (IF chains[n].id = id /\ chains[n].case \in {"past", "future"}
              THEN chains[n].trig ELSE 0)

\* C20: the job of a record without repeatMinutes is triggered at most once
\* in a run, whatever the interleaving of save notifications, full resyncs
\* and timer fires.
C20_OnceAtMostOnce ==
  \A id \in Ids : TriggersOnce(id, Len(chains)) <= 1

\* The pieces of string s between the occurrences of the character ch.
RECURSIVE Split(_, _)
Split(s, ch) ==
  IF ch \notin Range(s) THEN <<s>>
  ELSE LET i == CHOOSE k \in DOMAIN s : s[k] = ch /\ \A j \in 1..(k - 1) : s[j] # ch
       IN <<SubSeq(s, 1, i - 1)>> \o Split(SubSeq(s, i + 1, Len(s)), ch)

\* The number a string of decimal digits denotes.
IsNumber(s) == s # << >> /\ \A i \in DOMAIN s : s[i] \in Range(Digits)
RECURSIVE ToNumber(_)
ToNumber(s) ==
  IF s = << >> THEN 0
  ELSE ToNumber(SubSeq(s, 1, Len(s) - 1)) * 10
         + ((CHOOSE d \in DOMAIN Digits : Digits[d] = s[Len(s)]) - 1)

\* The fields of the string built.
Fields == Split(cron.str, " ")

\* Field f is the range from-to, with step appended after "/" when step is
\* not 0 and with no "/" when it is 0.
IsRange(f, from, to, step) ==
  LET bySlash == Split(f, "/")
      byDash  == Split(bySlash[1], "-")
  IN /\ Len(byDash) = 2
     /\ IsNumber(byDash[1]) /\ ToNumber(byDash[1]) = from
     /\ IsNumber(byDash[2]) /\ ToNumber(byDash[2]) = to
     /\ IF step = 0 THEN Len(bySlash) = 1
                    ELSE /\ Len(bySlash) = 2
                         /\ IsNumber(bySlash[2])
                         /\ ToNumber(bySlash[2]) = step

\* The days set of a mask, as indices from 0.
DaysSet(mask) == {i \in 0..(Len(mask) - 1) : mask[i + 1]}

\* C15: for 0 < repeatMinutes < 1440 and every time of day (h, m) (with no
\* mask, or a mask with a day set) the string built has six fields; the
\* seconds field is 0; the minute field is the range m-59 with step
\* repeatMinutes mod 60 when that is not 0 and the literal 0 when it is; the
\* hour field is the range h-23, with step floor(repeatMinutes / 60)
\* appended exactly when that is not 0; day of month and month are "*".
C15_CronFields ==
  LET job == cron.job IN
  (/\ cron.built
   /\ 0 < job.repeatMinutes /\ job.repeatMinutes < 1440
   /\ job.daysOfWeek.given => DaysSet(job.daysOfWeek.mask) # {}) =>
    /\ Len(Fields) = 6
    /\ Fields[1] = <<"0">>
    /\ IF job.repeatMinutes % 60 # 0
         THEN IsRange(Fields[2], job.timeOfDay.minutes, 59, job.repeatMinutes % 60)
         ELSE Fields[2] = <<"0">>
    /\ IsRange(Fields[3], job.timeOfDay.hours, 23, job.repeatMinutes \div 60)
    /\ Fields[4] = <<"*">>
    /\ Fields[5] = <<"*">>

\* A string built with a step in both fields: 23:59 every 1439 minutes.
C15_Witness ==
  /\ cron.built
  /\ cron.job.repeatMinutes = 1439
  /\ cron.job.timeOfDay = [hours |-> 23, minutes |-> 59]
  /\ Len(Fields) = 6
  /\ Len(Split(Fields[2], "/")) = 2
  /\ Len(Split(Fields[3], "/")) = 2

\* C16: for a mask of 7 elements with at least one day set, the day-of-week
\* field is the list, joined by commas, of (i + 1) mod 7 for the indices i
\* at which the mask is true, in the order of the indices: one value for
\* each day set and none for the others.
C16_DaysOfWeekField ==
  LET mask == cron.job.daysOfWeek.mask IN
  (/\ cron.built
   /\ cron.job.daysOfWeek.given
   /\ Len(mask) = 7
   /\ DaysSet(mask) # {}) =>
    /\ Len(Fields) = 6
    /\ LET values == Split(Fields[6], ",")
       IN /\ Len(values) = Cardinality(DaysSet(mask))
          /\ \A k \in DOMAIN values :
               /\ IsNumber(values[k])
               /\ \E i \in DaysSet(mask) :
                    /\ Cardinality({j \in DaysSet(mask) : j < i}) = k - 1
                    /\ ToNumber(values[k]) = (i + 1) % 7

\* The mask with Saturday (index 6) and two other days set: the field holds
\* three values, the last of them 0.
C16_Witness ==
  /\ cron.built
  /\ cron.job.daysOfWeek.given
  /\ cron.job.daysOfWeek.mask = <<FALSE, TRUE, FALSE, TRUE, FALSE, FALSE, TRUE>>
  /\ Split(Fields[6], ",") = << <<"2">>, <<"4">>, <<"0">> >>

\* C17: when the mask is absent or empty (no mask, a mask of length 0, or a
\* mask with no day set) the day-of-week field of the string built is "*".
C17_NoDaysIsEveryDay ==
  (/\ cron.built
   /\ ~cron.job.daysOfWeek.given \/ DaysSet(cron.job.daysOfWeek.mask) = {}) =>
    /\ Len(Fields) = 6
    /\ Fields[6] = <<"*">>

\* The values a field of a cron expression matches in 0..max, for the forms
\* of field _buildCronString writes: "*", a number, a range, a range with a
\* step.
FieldSet(f, max) ==
  LET bySlash == Split(f, "/")
      byDash  == Split(bySlash[1], "-")
      from    == IF f = <<"*">> THEN 0 ELSE ToNumber(byDash[1])
      to      == IF f = <<"*">> THEN max
                 ELSE IF Len(byDash) = 2 THEN ToNumber(byDash[2]) ELSE from
      step    == IF Len(bySlash) = 2 THEN ToNumber(bySlash[2]) ELSE 1
  IN {x \in from..to : x <= max /\ step > 0 /\ (x - from) % step = 0}

\* The instants of one day, in minutes from 00:00 UTC, the string matches
\* (its seconds field is 0, day of month and month are "*").
Instants ==
  {hh * 60 + mm : hh \in FieldSet(Fields[3], 23), mm \in FieldSet(Fields[2], 59)}

\* C19: for 0 < repeatMinutes < 1440 (and no mask), the instants of a day
\* the string built matches begin at timeOfDay, and two consecutive ones are
\* repeatMinutes apart: every matched instant but the first has the
\* instant repeatMinutes before it matched too.
C19_EveryRepeatMinutes ==
  LET job   == cron.job
      first == job.timeOfDay.hours * 60 + job.timeOfDay.minutes
  IN (/\ cron.built
      /\ 0 < job.repeatMinutes /\ job.repeatMinutes < 1440
      /\ ~job.daysOfWeek.given) =>
       /\ first \in Instants
       /\ \A x \in Instants :
            /\ x >= first
            /\ x = first \/ (x - job.repeatMinutes) \in Instants

====
